---- MODULE Spec2Model ----
(***************************************************************************)
(* Hydration dashboard (src/app/src/components/HydrationDashboard.tsx):    *)
(* the time-window test, the reminder scheduler, log normalisation, the    *)
(* save and load of the state under the storage key, and the dashboard     *)
(* component with its clock tick, its one-shot reminder timer, its         *)
(* memoised figures of the day and its notification-permission flow.       *)
(*                                                                         *)
(* Time.  An instant is a number of clock units ("milliseconds") since the *)
(* local midnight of day 0.  A minute is MinuteLen units and a day is      *)
(* DayMinutes minutes, so that a whole day, its midnight and the instants  *)
(* between two clock ticks fit in a finite model.  Clock times ("HH:MM")   *)
(* are minutes of the day, 0 .. DayMinutes-1; intervals are in minutes.    *)
(***************************************************************************)
EXTENDS Integers, Sequences, FiniteSets

\* ------------------------------------------------------------------ bounds
MinuteLen == 2
DayMinutes == 4
NumDays == 3
MaxInterval == 5
MaxRawLogs == 3
MaxLogs == 2
MaxUserActions == 2
MaxPending == 1

DayLen == DayMinutes * MinuteLen
Horizon == NumDays * DayLen
Instants == 0 .. (Horizon - 1)
ClockTimes == 0 .. (DayMinutes - 1)
Intervals == 1 .. MaxInterval

\* null / undefined where a Date is expected
NoDate == -1
\* a raw amountMl whose Number() is NaN (undefined, "abc", an object)
NotNumeric == -99
\* notificationTimeoutRef.current = null
NoTimer == 0

\* ------------------------------------------------------- program constants
\* the defaults, in the model's scale: a same-day window inside the day and
\* an interval longer than the clock tick's minute
DEFAULT_SETTINGS ==
  [ dailyGoalMl |-> 2, cupSizeMl |-> 1, wakeTime |-> 1, sleepTime |-> 3,
    reminderIntervalMinutes |-> 2, notificationsEnabled |-> FALSE ]

\* ------------------------------------------------------------ Date helpers
\* new Date(d).setHours(0, 0, 0, 0)
StartOfDay(d) == (d \div DayLen) * DayLen

\* new Date(d).setHours(hour, minute, 0, 0), the clock time given in minutes
SetHours(d, clockTime) == StartOfDay(d) + clockTime * MinuteLen

\* d.setMinutes(d.getMinutes() + minutes)
AddMinutes(d, minutes) == d + minutes * MinuteLen

\* d.setDate(d.getDate() + 1)
AddDay(d) == d + DayLen

Max(a, b) == IF a >= b THEN a ELSE b

\* ------------------------------------------------- withinHydrationWindow
WakeDateOf(d, settings) == SetHours(d, settings.wakeTime)

SleepDateOf(d, settings) ==
  LET wakeDate == SetHours(d, settings.wakeTime)
      sleepDate == SetHours(d, settings.sleepTime)
  IN  IF sleepDate <= wakeDate THEN AddDay(sleepDate) ELSE sleepDate

withinHydrationWindow_exclusive(date, settings) ==
  date > WakeDateOf(date, settings) /\ date < SleepDateOf(date, settings)

withinHydrationWindow(date, settings) ==
  date >= WakeDateOf(date, settings) /\ date <= SleepDateOf(date, settings)

\* ---------------------------------------------------- getUpcomingReminder
ReminderBase(now, settings, lastLog) ==
  IF lastLog # NoDate /\ withinHydrationWindow(lastLog, settings)
  THEN lastLog
  ELSE Max(now, WakeDateOf(now, settings))

getUpcomingReminder_noStaleCheck(now, settings, lastLog) ==
  LET first == AddMinutes(ReminderBase(now, settings, lastLog),
                          settings.reminderIntervalMinutes)
  IN  IF ~withinHydrationWindow(first, settings) THEN NoDate
      ELSE IF first > SleepDateOf(now, settings) THEN NoDate
      ELSE first

getUpcomingReminder_noSleepCheck(now, settings, lastLog) ==
  LET first == AddMinutes(ReminderBase(now, settings, lastLog),
                          settings.reminderIntervalMinutes)
      fresh == now + settings.reminderIntervalMinutes * MinuteLen
  IN  IF ~withinHydrationWindow(first, settings) THEN NoDate
      ELSE IF first <= now
           THEN (IF ~withinHydrationWindow(fresh, settings) THEN NoDate ELSE fresh)
           ELSE first

getUpcomingReminder(now, settings, lastLog) ==
  LET sleepDate == SleepDateOf(now, settings)
      first == AddMinutes(ReminderBase(now, settings, lastLog),
                          settings.reminderIntervalMinutes)
      fresh == now + settings.reminderIntervalMinutes * MinuteLen
  IN  IF ~withinHydrationWindow(first, settings) THEN NoDate
      ELSE IF first <= now
           THEN (IF ~withinHydrationWindow(fresh, settings) THEN NoDate
                 ELSE IF fresh > sleepDate THEN NoDate
                 ELSE fresh)
           ELSE IF first > sleepDate THEN NoDate
           ELSE first

\* ------------------------------------------------ hydrateLogsFromStorage
\* Number(log.amountMl) || 0
CoerceAmount(raw) == IF raw = NotNumeric THEN 0 ELSE raw

\* the .map() step: every property of the entry is kept (...log), createdAt
\* defaults to the current instant and amountMl is coerced
NormalizeLog(log, clk) ==
  [ f \in DOMAIN log |->
      IF f = "amountMl" THEN CoerceAmount(log.amountMl)
      ELSE IF f = "createdAt"
           THEN (IF log.createdAt = NoDate THEN clk ELSE log.createdAt)
           ELSE log[f] ]

\* Array.prototype.sort with (a, b) => b.createdAt - a.createdAt: a stable
\* sort, newest first (insertion after the entries that are not older)
InsertNewestFirst(sorted, log) ==
  LET k == Cardinality({ i \in 1 .. Len(sorted) :
                           sorted[i].createdAt >= log.createdAt })
  IN  SubSeq(sorted, 1, k) \o << log >> \o SubSeq(sorted, k + 1, Len(sorted))

InsertOldestFirst(sorted, log) ==
  LET k == Cardinality({ i \in 1 .. Len(sorted) :
                           sorted[i].createdAt <= log.createdAt })
  IN  SubSeq(sorted, 1, k) \o << log >> \o SubSeq(sorted, k + 1, Len(sorted))

SortNewestFirst_ascending(seq) ==
  LET S[i \in 0 .. Len(seq)] ==
        IF i = 0 THEN << >> ELSE InsertOldestFirst(S[i - 1], seq[i])
  IN  S[Len(seq)]

SortNewestFirst_asGiven(seq) == seq

SortNewestFirst(seq) ==
  LET S[i \in 0 .. Len(seq)] ==
        IF i = 0 THEN << >> ELSE InsertNewestFirst(S[i - 1], seq[i])
  IN  S[Len(seq)]

PositiveAmount_any(log) == TRUE

PositiveAmount(log) == log.amountMl > 0

hydrateLogsFromStorage(rawLogs, clk) ==
  LET mapped == [ i \in 1 .. Len(rawLogs) |-> NormalizeLog(rawLogs[i], clk) ]
  IN  SortNewestFirst(SelectSeq(mapped, PositiveAmount))

\* ------------------------------------------------------------------ state
VARIABLES
  probe,      \* one call of the pure scheduler functions: arguments, results
  norm,       \* one call of hydrateLogsFromStorage: argument, result
  store,      \* one save and one load of a state: arguments, results
  clock,      \* the host's current time, Date.now()
  now,        \* useState now: the time of the last clock tick (or of mount)
  tickDue,    \* when the setInterval clock tick fires next
  settings,   \* useState settings
  logs,       \* useState logs, a sequence of WaterLog
  dailyIntake,   \* useMemo dailyIntake, as last computed
  todaysLogs,    \* useMemo todaysLogs, as last computed
  volumeInput,   \* useState volumeInput
  timers,     \* the host's pending setTimeout timers: [id, due]
  notificationTimeoutRef,   \* the id kept in the ref, or NoTimer
  permission, \* Notification.permission
  pending,    \* permission requests awaiting the user's answer
  requested,  \* what the last permission request resolved to, or "none"
  asked,      \* the user action that opened the last prompt, 0 if none
  notifications, \* the notifications handed to the host: [kind, at]
  storage,    \* the localStorage entry under STORAGE_KEY, or Absent
  storageWritable, \* whether localStorage.setItem succeeds
  userActions,   \* user actions taken so far
  handled,    \* the event handler that ran last, or "none" (observation)
  yielded     \* the reminder instants the scheduler has yielded (observation)

dashboardVars ==
  << clock, now, tickDue, settings, logs, dailyIntake, todaysLogs, volumeInput,
     timers, notificationTimeoutRef, permission, pending, requested, asked,
     notifications, storage, storageWritable, userActions, handled, yielded >>

vars == << probe, norm, store, dashboardVars >>

IdleProbe ==
  [ now |-> 0, settings |-> DEFAULT_SETTINGS, lastLog |-> NoDate,
    calledWithin |-> TRUE, within |-> FALSE,
    calledReminder |-> TRUE, reminder |-> NoDate ]

IdleNorm == [ raw |-> << >>, clk |-> 0, called |-> TRUE, out |-> << >> ]

\* The localStorage entry under STORAGE_KEY: no entry, an entry that cannot
\* be read (getItem throws), or a text, given by what JSON.parse makes of it.
Absent == [ kind |-> "absent" ]
Unreadable == [ kind |-> "unreadable" ]
Text(json) == [ kind |-> "text", json |-> json ]

\* JS values, tagged with their type; NotJson is a text JSON.parse rejects
\* and EmptyText the empty string
JSNull == [ type |-> "null" ]
JSUndefined == [ type |-> "undefined" ]
JSNumber == [ type |-> "number" ]
JSString == [ type |-> "string" ]
JSObject(props) == [ type |-> "object", props |-> props ]
JSArray(items) == [ type |-> "array", items |-> items ]
NotJson == [ type |-> "invalid" ]
EmptyText == [ type |-> "empty" ]
NoProps == [ f \in {} |-> JSUndefined ]

\* a log's note when none was given
UndefinedNote == "<undefined>"

IdleStore ==
  [ state |-> [ settings |-> DEFAULT_SETTINGS, logs |-> << >> ],
    item |-> Absent, writable |-> FALSE, clk |-> 0,
    persisted |-> TRUE, loaded |-> TRUE, threw |-> FALSE,
    settings |-> DEFAULT_SETTINGS, logs |-> << >> ]

\* the component is not rendered (the pure functions are called directly)
DashboardUnmounted ==
  /\ clock = 0 /\ now = 0 /\ tickDue = 0
  /\ settings = DEFAULT_SETTINGS /\ logs = << >> /\ volumeInput = 0
  /\ dailyIntake = 0 /\ todaysLogs = << >>
  /\ timers = {} /\ notificationTimeoutRef = NoTimer
  /\ permission = "default" /\ pending = 0 /\ requested = "none" /\ asked = 0
  /\ notifications = {}
  /\ storage = Absent /\ storageWritable = FALSE
  /\ userActions = 0 /\ handled = "none" /\ yielded = {}

\* ------------------------------------------- the scheduler, called directly
ScheduleSettings ==
  { [DEFAULT_SETTINGS EXCEPT !.wakeTime = w, !.sleepTime = s,
                             !.reminderIntervalMinutes = i]
      : w \in ClockTimes, s \in ClockTimes, i \in Intervals }

SchedInit ==
  /\ norm = IdleNorm
  /\ store = IdleStore
  /\ DashboardUnmounted
  /\ probe \in [ now : Instants, settings : ScheduleSettings,
                 lastLog : Instants \cup {NoDate},
                 calledWithin : {FALSE}, within : {FALSE},
                 calledReminder : {FALSE}, reminder : {NoDate} ]

CallWithinHydrationWindow ==
  /\ ~probe.calledWithin
  /\ UNCHANGED << norm, store, dashboardVars >>
  /\ probe' = [probe EXCEPT !.calledWithin = TRUE,
                 !.within = withinHydrationWindow(probe.now, probe.settings)]

CallGetUpcomingReminder ==
  /\ ~probe.calledReminder
  /\ UNCHANGED << norm, store, dashboardVars >>
  /\ probe' = [probe EXCEPT !.calledReminder = TRUE,
                 !.reminder = getUpcomingReminder(probe.now, probe.settings,
                                                  probe.lastLog)]

SchedNext == CallWithinHydrationWindow \/ CallGetUpcomingReminder

SpecSched == SchedInit /\ [][SchedNext]_vars


\* ------------------------------- hydrateLogsFromStorage, called directly
RawAmounts == { NotNumeric, -1, 0, 1, 2 }
RawCreatedAt == { NoDate, 0, 1, 2 }

RawLists ==
  UNION { [ 1 .. n -> [ amountMl : RawAmounts, createdAt : RawCreatedAt ] ]
            : n \in 0 .. MaxRawLogs }

\* the entries of a raw list, identified by their position in it
WithIds(list) ==
  [ i \in 1 .. Len(list) |->
      [ id |-> i, amountMl |-> list[i].amountMl, createdAt |-> list[i].createdAt ] ]

HydrateInit ==
  /\ probe = IdleProbe
  /\ store = IdleStore
  /\ DashboardUnmounted
  /\ \E list \in RawLists, c \in { 1, 3 } :
       norm = [ raw |-> WithIds(list), clk |-> c, called |-> FALSE, out |-> << >> ]

CallHydrateLogsFromStorage ==
  /\ ~norm.called
  /\ norm' = [norm EXCEPT !.called = TRUE,
                !.out = hydrateLogsFromStorage(norm.raw, norm.clk)]
  /\ UNCHANGED << probe, store, dashboardVars >>

HydrateNext == CallHydrateLogsFromStorage

SpecHydrate == HydrateInit /\ [][HydrateNext]_vars

\* ---------------------------------------------------------- the dashboard
QUICK_ADD_AMOUNTS == { 1, 2 }
GoalChoices == { 3 }
CupChoices == { 2 }
VolumeChoices == { 0 }
NoteInputs == { " tea " }
WakeChoices == { 0, 3 }
SleepChoices == { 2 }
IntervalChoices == { 2 }
SettingsFields == DOMAIN DEFAULT_SETTINGS

\* { ...DEFAULT_SETTINGS, ...stored.settings }
MergeSettings(defaults, given) ==
  [ f \in SettingsFields |-> IF f \in DOMAIN given THEN given[f] ELSE defaults[f] ]

\* calculateTodayProgress, today = new Date() read when it is called
SumAmounts(ls) ==
  LET S[i \in 0 .. Len(ls)] == IF i = 0 THEN 0 ELSE S[i - 1] + ls[i].amountMl
  IN  S[Len(ls)]

calculateTodayProgress(ls, clk) ==
  SumAmounts(SelectSeq(ls, LAMBDA log : log.createdAt >= StartOfDay(clk)))

\* the body of useMemo todaysLogs
todaysLogsOf(ls, clk) ==
  SelectSeq(ls, LAMBDA log : log.createdAt >= StartOfDay(clk))

\* useMemo lastLog: the createdAt of the first log
lastLogOf(ls) == IF Len(ls) = 0 THEN NoDate ELSE ls[1].createdAt

\* useMemo reminderTime
reminderTimeOf(n, s, ls) == getUpcomingReminder(n, s, lastLogOf(ls))

\* the id setTimeout returns: one no pending timer has, nor the stale ref
FreshTimerId(tm, ref) ==
  LET free == { n \in 1 .. (Cardinality(tm) + 2) :
                  n # ref /\ \A t \in tm : t.id # n }
  IN  CHOOSE n \in free : \A m \in free : n <= m

\* triggerLocalNotification: what reaches the host
triggerLocalNotification_noPermissionCheck(perm, kind, at) ==
  { [ kind |-> kind, at |-> at ] }

triggerLocalNotification(perm, kind, at) ==
  IF perm # "granted" THEN {} ELSE { [ kind |-> kind, at |-> at ] }

\* handleNotificationToggle after its await: permission === "granted"
EnabledAfterRequest_always(result) == TRUE

EnabledAfterRequest(result) == result = "granted"

\* requestNotificationPermission resolves without asking the user
\* a variant of the updater below that rebuilds the settings from the defaults
SetNotificationsEnabled_fromDefaults(prev, enabled) ==
  [DEFAULT_SETTINGS EXCEPT !.notificationsEnabled = enabled]

\* the updater (prev) => ({ ...prev, notificationsEnabled: enabled }) that
\* handleNotificationToggle hands to setSettings: React applies it to the
\* settings of the moment the update runs, not to those of the click
SetNotificationsEnabled(prev, enabled) ==
  [prev EXCEPT !.notificationsEnabled = enabled]

AnswersAtOnce(perm) == perm \in { "granted", "denied" }

StringifyLog_withoutNote(log) ==
  [ f \in DOMAIN log \ { "note" } |-> log[f] ]

\* JSON.stringify of a log: a property whose value is undefined is left out
StringifyLog(log) ==
  [ f \in { g \in DOMAIN log : g # "note" \/ log.note # UndefinedNote } |-> log[f] ]

\* JSON.stringify(state), given by the value JSON.parse reads back from it
Stringify(state) ==
  JSObject([ settings |-> JSObject(state.settings),
             logs |-> JSArray([ i \in 1 .. Len(state.logs) |->
                                  StringifyLog(state.logs[i]) ]) ])

persistState_settingsOnly(state, stored, writable) ==
  IF writable
  THEN Text(Stringify([ settings |-> state.settings, logs |-> << >> ]))
  ELSE stored

\* persistState: setItem under try/catch
persistState(state, stored, writable) ==
  IF writable THEN Text(Stringify(state)) ELSE stored

\* loadState: null when there is no entry or an empty one, and when getItem
\* or JSON.parse throws
loadState(item) ==
  IF item.kind = "text" /\ item.json.type \notin { "invalid", "empty" }
  THEN item.json
  ELSE JSNull

\* stored?.key
Prop(v, key) ==
  IF v.type = "object" /\ key \in DOMAIN v.props THEN v.props[key] ELSE JSUndefined

\* a stored value that passes if (...): JSNumber and JSString stand for a
\* number other than 0 and a string other than ""
Truthy(v) == v.type \notin { "undefined", "null" }

\* useState settings, the initialiser; the properties a string spreads
\* into are none of the settings'
InitialSettings(stored) ==
  LET given == Prop(stored, "settings")
  IN  IF Truthy(given)
      THEN MergeSettings(DEFAULT_SETTINGS,
                         IF given.type = "object" THEN given.props ELSE NoProps)
      ELSE DEFAULT_SETTINGS

\* useState logs, the initialiser, with the Array.isArray test of
\* hydrateLogsFromStorage
InitialLogs(stored, clk) ==
  LET given == Prop(stored, "logs")
  IN  IF Truthy(given) /\ given.type = "array"
      THEN hydrateLogsFromStorage(given.items, clk)
      ELSE << >>

\* useState volumeInput, the initialiser: stored?.settings?.cupSizeMl if truthy
InitialVolumeInput(stored) ==
  LET given == Prop(stored, "settings")
  IN  IF /\ given.type = "object"
         /\ "cupSizeMl" \in DOMAIN given.props
         /\ given.props.cupSizeMl # 0
      THEN given.props.cupSizeMl
      ELSE DEFAULT_SETTINGS.cupSizeMl

\* the notification effect: cleanup of the previous run, then the body
NotificationEffect_noClear(tm, ref, enabled, reminderTime, clk) ==
  IF ~enabled \/ reminderTime = NoDate \/ reminderTime - clk <= 0
  THEN [ timers |-> { t \in tm : t.id # ref }, ref |-> NoTimer ]
  ELSE LET id == FreshTimerId(tm, ref)
       IN  [ timers |-> tm \cup { [ id |-> id, due |-> reminderTime ] },
             ref |-> id ]

NotificationEffect_keepsTimer(tm, ref, enabled, reminderTime, clk) ==
  LET cleared == { t \in tm : t.id # ref }
  IN  IF ~enabled \/ reminderTime = NoDate \/ reminderTime - clk <= 0
      THEN [ timers |-> tm, ref |-> ref ]
      ELSE LET id == FreshTimerId(cleared, NoTimer)
           IN  [ timers |-> cleared \cup { [ id |-> id, due |-> reminderTime ] },
                 ref |-> id ]

NotificationEffect(tm, ref, enabled, reminderTime, clk) ==
  LET cleared == { t \in tm : t.id # ref }
  IN  IF ~enabled \/ reminderTime = NoDate \/ reminderTime - clk <= 0
      THEN [ timers |-> cleared, ref |-> NoTimer ]
      ELSE LET id == FreshTimerId(cleared, NoTimer)
           IN  [ timers |-> cleared \cup { [ id |-> id, due |-> reminderTime ] },
                 ref |-> id ]

\* The effect's dependencies are [reminderTime, notificationsEnabled].  Every
\* state update recomputes reminderTime; a computed Date is a new object, so
\* the effect runs again unless reminderTime was and stays null.
EffectRuns(oldReminder, newReminder, oldEnabled, newEnabled) ==
  oldEnabled # newEnabled \/ oldReminder # NoDate \/ newReminder # NoDate

\* A render after a state update, with the effects it schedules: the
\* persist effect (when settings or logs were set) and the notification
\* effect.
Commit(n2, s2, l2, persist) ==
  LET oldR == reminderTimeOf(now, settings, logs)
      newR == reminderTimeOf(n2, s2, l2)
      eff == IF EffectRuns(oldR, newR, settings.notificationsEnabled,
                           s2.notificationsEnabled)
             THEN NotificationEffect(timers, notificationTimeoutRef,
                                     s2.notificationsEnabled, newR, clock)
             ELSE [ timers |-> timers, ref |-> notificationTimeoutRef ]
  IN  /\ now' = n2
      /\ settings' = s2
      /\ logs' = l2
      /\ timers' = eff.timers
      /\ notificationTimeoutRef' = eff.ref
      /\ storage' = IF persist
                    THEN persistState([ settings |-> s2, logs |-> l2 ], storage,
                                      storageWritable)
                    ELSE storage

\* Both memos depend on [logs] alone: they are computed again in the render
\* that follows setLogs, and in no other render.
LogsMemos ==
  /\ dailyIntake' = calculateTodayProgress(logs', clock)
  /\ todaysLogs' = todaysLogsOf(logs', clock)

\* what localStorage may hold when the component mounts at instant c
StoredSettings ==
  { DEFAULT_SETTINGS,
    [ notificationsEnabled |-> TRUE ],
    [ DEFAULT_SETTINGS EXCEPT !.wakeTime = 3, !.sleepTime = 1,
                              !.reminderIntervalMinutes = 2,
                              !.notificationsEnabled = TRUE ] }

StoredLogs(c) ==
  { << >> } \cup
  { << [ id |-> t, amountMl |-> 1, createdAt |-> t ] >>
      : t \in { c - 1 } \cap Instants }

\* a log of the day before the mount and, after it, one of the day of the
\* mount: stored oldest first
StoredLogsOfTwoDays(c) ==
  { << [ id |-> t - DayLen, amountMl |-> 2, createdAt |-> t - DayLen ],
       [ id |-> t, amountMl |-> 1, createdAt |-> t ] >>
      : t \in { x \in { c - 1 } : StartOfDay(x) = StartOfDay(c) } }

StoredState(st, ls) ==
  Text(JSObject([ settings |-> JSObject(st), logs |-> JSArray(ls) ]))

\* an entry with values the component never writes: a cup size that is
\* not a number, and logs whose amount is zero, not a number or negative
\* around one valid log
StoredInvalid(c) ==
  { StoredState([ DEFAULT_SETTINGS EXCEPT !.cupSizeMl = NotNumeric ],
                << [ id |-> 1, amountMl |-> 0, createdAt |-> t ],
                   [ id |-> t, amountMl |-> 1, createdAt |-> t ],
                   [ id |-> 2, amountMl |-> NotNumeric, createdAt |-> t ],
                   [ id |-> 3, amountMl |-> -1, createdAt |-> t ] >>)
      : t \in { c - 1 } \cap Instants }

StoredStates(c) ==
  { Absent } \cup
  { StoredState(st, ls) : st \in StoredSettings, ls \in StoredLogs(c) } \cup
  { StoredState(DEFAULT_SETTINGS, ls) : ls \in StoredLogsOfTwoDays(c) } \cup
  StoredInvalid(c)

\* the component mounts on day 1 and is followed into day 2
MountInstants == DayLen .. (2 * DayLen - 1)
DashboardHorizon == 2 * DayLen + MinuteLen

\* The state after the first render and its effects.
Mounted(c, stored, perm, writable) ==
  LET s0 == InitialSettings(loadState(stored))
      l0 == InitialLogs(loadState(stored), c)
      eff == NotificationEffect({}, NoTimer, s0.notificationsEnabled,
                                reminderTimeOf(c, s0, l0), c)
  IN  /\ clock = c
      /\ now = c
      /\ tickDue = c + MinuteLen
      /\ settings = s0
      /\ logs = l0
      /\ dailyIntake = calculateTodayProgress(l0, c)
      /\ todaysLogs = todaysLogsOf(l0, c)
      /\ volumeInput = InitialVolumeInput(loadState(stored))
      /\ timers = eff.timers
      /\ notificationTimeoutRef = eff.ref
      /\ permission = perm
      /\ pending = 0
      /\ requested = "none"
      /\ asked = 0
      /\ notifications = {}
      /\ storageWritable = writable
      /\ storage = persistState([ settings |-> s0, logs |-> l0 ], stored, writable)
      /\ userActions = 0
      /\ handled = "none"

\* The component mounts with the permission not yet asked or granted; the
\* user may deny it later (PermissionChanged).
Init ==
  /\ probe = IdleProbe
  /\ norm = IdleNorm
  /\ store = IdleStore
  /\ yielded = {}
  /\ \E c \in MountInstants, perm \in { "default", "granted" },
        writable \in BOOLEAN :
       \E stored \in StoredStates(c) : Mounted(c, stored, perm, writable)

\* ---- time and timers
AdvanceStep ==
  /\ clock + 1 < DashboardHorizon
  /\ tickDue > clock
  /\ \A t \in timers : t.due > clock
  /\ clock' = clock + 1
  /\ UNCHANGED << handled, dailyIntake, todaysLogs, now, tickDue, settings,
                  logs, volumeInput, timers, notificationTimeoutRef, permission,
                  pending, requested, asked, notifications, storage,
                  storageWritable, userActions, probe, norm, store >>

Advance == AdvanceStep /\ UNCHANGED yielded

\* the setInterval callback: setNow(new Date())
TickStep ==
  /\ tickDue <= clock
  /\ tickDue' = tickDue + MinuteLen
  /\ Commit(clock, settings, logs, FALSE)
  /\ UNCHANGED << handled, dailyIntake, todaysLogs, clock, volumeInput,
                  permission, pending, requested, asked, notifications,
                  storageWritable, userActions, probe, norm, store >>

TickFire == TickStep /\ UNCHANGED yielded

\* the setTimeout callback of the notification effect
TimerStep ==
  \E t \in timers :
    /\ t.due <= clock
    /\ timers' = timers \ { t }
    /\ notifications' =
         notifications \cup triggerLocalNotification(permission, "reminder", clock)
    /\ UNCHANGED << handled, dailyIntake, todaysLogs, clock, now, tickDue,
                    settings, logs, volumeInput, notificationTimeoutRef,
                    permission, pending, requested, asked, storage,
                    storageWritable, userActions, probe, norm, store >>

TimerFire == TimerStep /\ UNCHANGED yielded

\* ---- user actions
UserAction(handler) ==
  /\ userActions < MaxUserActions
  /\ userActions' = userActions + 1
  /\ handled' = handler
  /\ UNCHANGED << probe, norm, store, yielded >>

\* note?.trim() || undefined, on the notes the model offers
Trim(note) == IF note = " tea " THEN "tea" ELSE IF note = " " THEN "" ELSE note

TrimmedNote(note) ==
  IF note = UndefinedNote \/ Trim(note) = "" THEN UndefinedNote ELSE Trim(note)

addLog(amount, note) ==
  LET log == [ id |-> clock, amountMl |-> amount, note |-> TrimmedNote(note),
               createdAt |-> clock ]
  IN  /\ Commit(now, settings, hydrateLogsFromStorage(<< log >> \o logs, clock), TRUE)
      /\ LogsMemos

QuickAdd ==
  \E amount \in QUICK_ADD_AMOUNTS :
    /\ UserAction("addLog")
    /\ Len(logs) < MaxLogs
    /\ addLog(amount, UndefinedNote)
    /\ UNCHANGED << clock, tickDue, volumeInput, permission, pending, requested,
                    asked, notifications, storageWritable >>

SetVolumeInput ==
  \E v \in VolumeChoices :
    /\ UserAction("setVolumeInput")
    /\ volumeInput' = v
    /\ UNCHANGED << dailyIntake, todaysLogs, clock, now, tickDue, settings,
                    logs, timers, notificationTimeoutRef, permission, pending,
                    requested, asked, notifications, storage, storageWritable >>

\* volumeInput <= 0, false when volumeInput is not a number
NotPositive(v) == v # NotNumeric /\ v <= 0

SubmitForm ==
  /\ UserAction("onSubmit")
  /\ Len(logs) < MaxLogs
  /\ IF NotPositive(volumeInput)
     THEN UNCHANGED << now, settings, logs, dailyIntake, todaysLogs, timers,
                       notificationTimeoutRef, storage >>
     ELSE \E noteInput \in NoteInputs : addLog(volumeInput, noteInput)
  /\ UNCHANGED << clock, tickDue, volumeInput, permission, pending, requested,
                  asked, notifications, storageWritable >>

removeLog ==
  \E i \in 1 .. Len(logs) :
    /\ UserAction("removeLog")
    /\ Commit(now, settings, SelectSeq(logs, LAMBDA log : log.id # logs[i].id), TRUE)
    /\ LogsMemos
    /\ UNCHANGED << clock, tickDue, volumeInput, permission, pending, requested,
                    asked, notifications, storageWritable >>

resetToday_removesAll ==
  /\ UserAction("resetToday")
  /\ Commit(now, settings, << >>, TRUE)
  /\ LogsMemos
  /\ UNCHANGED << clock, tickDue, volumeInput, permission, pending, requested,
                  asked, notifications, storageWritable >>

resetToday ==
  /\ UserAction("resetToday")
  /\ Commit(now, settings,
            SelectSeq(logs, LAMBDA log : log.createdAt < StartOfDay(clock)), TRUE)
  /\ LogsMemos
  /\ UNCHANGED << clock, tickDue, volumeInput, permission, pending, requested,
                  asked, notifications, storageWritable >>

handleGoalChange ==
  \E v \in GoalChoices :
    /\ UserAction("handleGoalChange")
    /\ Commit(now, [settings EXCEPT !.dailyGoalMl = v], logs, TRUE)
    /\ UNCHANGED << dailyIntake, todaysLogs, clock, tickDue, volumeInput,
                    permission, pending, requested, asked, notifications,
                    storageWritable >>

handleCupSizeChange ==
  \E v \in CupChoices :
    /\ UserAction("handleCupSizeChange")
    /\ Commit(now, [settings EXCEPT !.cupSizeMl = v], logs, TRUE)
    /\ volumeInput' = v
    /\ UNCHANGED << dailyIntake, todaysLogs, clock, tickDue, permission,
                    pending, requested, asked, notifications, storageWritable >>

handleScheduleChange ==
  \E s2 \in { [settings EXCEPT !.wakeTime = w] : w \in WakeChoices }
        \cup { [settings EXCEPT !.sleepTime = w] : w \in SleepChoices }
        \cup { [settings EXCEPT !.reminderIntervalMinutes = i] : i \in IntervalChoices } :
    /\ UserAction("handleScheduleChange")
    /\ Commit(now, s2, logs, TRUE)
    /\ UNCHANGED << dailyIntake, todaysLogs, clock, tickDue, volumeInput,
                    permission, pending, requested, asked, notifications,
                    storageWritable >>

\* handleNotificationToggle up to its await; when the permission is already
\* granted or denied the continuation follows with no event in between
handleNotificationToggle ==
  /\ UserAction("handleNotificationToggle")
  /\ IF settings.notificationsEnabled
     THEN /\ Commit(now, SetNotificationsEnabled(settings, FALSE), logs, TRUE)
          /\ UNCHANGED << pending, requested, asked, notifications >>
     ELSE IF AnswersAtOnce(permission)
     THEN /\ Commit(now,
                    SetNotificationsEnabled(settings,
                                            EnabledAfterRequest(permission)),
                    logs, TRUE)
          /\ notifications' =
               notifications \cup
                 (IF EnabledAfterRequest(permission)
                  THEN triggerLocalNotification(permission, "active", clock)
                  ELSE {})
          /\ requested' = permission
          /\ UNCHANGED << pending, asked >>
     ELSE /\ pending < MaxPending
          /\ pending' = pending + 1
          /\ asked' = userActions + 1
          /\ UNCHANGED << now, settings, logs, timers, notificationTimeoutRef,
                          storage, notifications, requested >>
  /\ UNCHANGED << clock, tickDue, volumeInput, permission, storageWritable,
                  dailyIntake, todaysLogs >>

\* the user answers the permission prompt (or dismisses it): the request
\* resolves and handleNotificationToggle continues after its await
PermissionAnswered ==
  \E answer \in { "granted", "denied", "default" } :
    /\ pending > 0
    /\ pending' = pending - 1
    /\ handled' = "handleNotificationToggle"
    /\ permission' = IF answer = "default" THEN permission ELSE answer
    /\ requested' = permission'
    /\ Commit(now,
              SetNotificationsEnabled(settings, EnabledAfterRequest(permission')),
              logs, TRUE)
    /\ notifications' =
         notifications \cup
           (IF EnabledAfterRequest(permission')
            THEN triggerLocalNotification(permission', "active", clock)
            ELSE {})
    /\ UNCHANGED << asked, dailyIntake, todaysLogs, clock, tickDue, volumeInput,
                    storageWritable, userActions, probe, norm, store, yielded >>

\* the user changes the site's notification permission in the browser
PermissionChanged ==
  \E p \in { "default", "granted", "denied" } :
    /\ userActions < MaxUserActions
    /\ userActions' = userActions + 1
    /\ p # permission
    /\ permission' = p
    /\ UNCHANGED << dailyIntake, todaysLogs, clock, now, tickDue, settings,
                    logs, volumeInput, timers, notificationTimeoutRef, pending,
                    requested, asked, notifications, storage, storageWritable,
                    handled, probe, norm, store, yielded >>

Next ==
  \/ Advance
  \/ TickFire
  \/ TimerFire
  \/ QuickAdd
  \/ SetVolumeInput
  \/ SubmitForm
  \/ removeLog
  \/ resetToday
  \/ handleGoalChange
  \/ handleCupSizeChange
  \/ handleScheduleChange
  \/ handleNotificationToggle
  \/ PermissionAnswered
  \/ PermissionChanged

Spec == Init /\ [][Next]_vars

\* ------------------------------------ the dashboard left alone (no user)
\* Notifications are enabled and permitted, the user does nothing: only
\* time passes, the clock tick and the reminder timer fire, each when due.
\* yielded collects every reminder instant the scheduler has returned.
Observe ==
  LET r == reminderTimeOf(now', settings', logs')
  IN  yielded' = yielded \cup
        (IF settings'.notificationsEnabled /\ permission' = "granted" /\ r # NoDate
         THEN { r } ELSE {})

\* the intervals offered are longer than the clock tick's minute
IdleStored(c) ==
  { StoredState([ st EXCEPT !.notificationsEnabled = TRUE ], ls)
      : st \in { x \in ScheduleSettings : x.reminderIntervalMinutes > 1 },
        ls \in StoredLogs(c) }

IdleInit ==
  /\ probe = IdleProbe
  /\ norm = IdleNorm
  /\ store = IdleStore
  /\ \E c \in MountInstants :
       \E stored \in IdleStored(c) : Mounted(c, stored, "granted", TRUE)
  /\ yielded = LET r == reminderTimeOf(now, settings, logs)
               IN  IF r # NoDate THEN { r } ELSE {}

IdleAdvance == AdvanceStep /\ Observe

IdleTickFire == TickStep /\ Observe

IdleTimerFire == TimerStep /\ Observe

IdleNext == IdleAdvance \/ IdleTickFire \/ IdleTimerFire

SpecIdle ==
  /\ IdleInit
  /\ [][IdleNext]_vars
  /\ WF_vars(IdleAdvance)
  /\ WF_vars(IdleTickFire)
  /\ WF_vars(IdleTimerFire)

\* ------------------------------- persistState and the load, called directly
\* settings the handlers can produce, and logs as the store holds them:
\* positive amounts, newest first; an entry read from storage has no note
\* property, one made by addLog has a note or the value undefined
StoreSettings ==
  { DEFAULT_SETTINGS,
    [ dailyGoalMl |-> 3, cupSizeMl |-> 2, wakeTime |-> 3, sleepTime |-> 1,
      reminderIntervalMinutes |-> 4, notificationsEnabled |-> TRUE ] }

StoreLogEntries ==
  [ id : { 1, 2 }, amountMl : { 1, 2 }, createdAt : { 1, 2 } ] \cup
  [ id : { 1, 2 }, amountMl : { 1, 2 }, createdAt : { 1, 2 },
    note : { UndefinedNote, "tea" } ]

StoreLogs ==
  { << >> } \cup { << a >> : a \in StoreLogEntries } \cup
  UNION { { << a, b >> : b \in { x \in StoreLogEntries :
                                    x.id = 1 /\ x.createdAt <= a.createdAt } }
            : a \in { x \in StoreLogEntries : x.id = 2 } }

\* texts under the storage key that are not a {settings, logs} object
MalformedJson ==
  { NotJson, EmptyText, JSNull, JSNumber, JSString, JSArray(<< >>),
    JSObject(NoProps),
    JSObject([ settings |-> JSNull, logs |-> JSNull ]),
    JSObject([ settings |-> JSString, logs |-> JSString ]),
    JSObject([ settings |-> JSObject([ dailyGoalMl |-> NotNumeric ]),
               logs |-> JSArray(<< >>) ]),
    JSObject([ settings |-> JSObject(DEFAULT_SETTINGS),
               logs |-> JSArray(<< JSNull >>) ]) }

StoreItems ==
  { Absent, Unreadable } \cup { Text(json) : json \in MalformedJson } \cup
  { StoredState(DEFAULT_SETTINGS, << [ id |-> 1, amountMl |-> 1, createdAt |-> 1 ] >>) }

\* the .map() callback of hydrateLogsFromStorage reads log.createdAt: a
\* TypeError on a null entry, thrown out of the useState initialiser
InitialLogsThrows(stored) ==
  LET given == Prop(stored, "logs")
  IN  given.type = "array" /\ \E i \in 1 .. Len(given.items) : given.items[i] = JSNull

StoreInit ==
  /\ probe = IdleProbe
  /\ norm = IdleNorm
  /\ DashboardUnmounted
  /\ store \in [ state : [ settings : StoreSettings, logs : StoreLogs ],
                  item : StoreItems, writable : BOOLEAN, clk : { 3 },
                  persisted : { FALSE }, loaded : { FALSE }, threw : { FALSE },
                  settings : { DEFAULT_SETTINGS }, logs : { << >> } ]

CallPersistState ==
  /\ ~store.loaded
  /\ store' = [store EXCEPT !.persisted = TRUE,
                 !.item = persistState(store.state, store.item, store.writable)]
  /\ UNCHANGED << probe, norm, dashboardVars >>

\* loadState and the useState initialisers of settings and logs
CallLoadState ==
  /\ ~store.loaded
  /\ LET stored == loadState(store.item)
     IN  store' =
           IF InitialLogsThrows(stored)
           THEN [store EXCEPT !.loaded = TRUE, !.threw = TRUE]
           ELSE [store EXCEPT !.loaded = TRUE,
                              !.settings = InitialSettings(stored),
                              !.logs = InitialLogs(stored, store.clk)]
  /\ UNCHANGED << probe, norm, dashboardVars >>

StoreNext == CallPersistState \/ CallLoadState

SpecStore == StoreInit /\ [][StoreNext]_vars

\* ----------------------------------------------- claims on the scheduler
\* The hydration window of now's calendar date, stated from the settings:
\* wake on that date, sleep on that date or, when sleep <= wake, a day later.
TimeOfDay(t) == t % DayLen
WakeOffset == probe.settings.wakeTime * MinuteLen
SleepOffset == probe.settings.sleepTime * MinuteLen
IntervalLen == probe.settings.reminderIntervalMinutes * MinuteLen
Overnight == probe.settings.sleepTime <= probe.settings.wakeTime
wakeInstant == probe.now - TimeOfDay(probe.now) + WakeOffset
sleepInstant ==
  probe.now - TimeOfDay(probe.now) + SleepOffset + (IF Overnight THEN DayLen ELSE 0)

\* C1: an instant returned by getUpcomingReminder lies in the hydration
\* window of now's calendar date, wakeInstant <= r <= sleepInstant; with no
\* log and now inside a same-day window, a candidate now + interval that is
\* later than sleepInstant gives no reminder.
C1_ReminderInsideWindow ==
  probe.calledReminder =>
    /\ probe.reminder # NoDate =>
         (wakeInstant <= probe.reminder /\ probe.reminder <= sleepInstant)
    /\ ( /\ probe.lastLog = NoDate
         /\ ~Overnight
         /\ wakeInstant <= probe.now
         /\ probe.now + IntervalLen > sleepInstant ) => probe.reminder = NoDate

\* a reminder exactly at the end of an overnight window, anchored to a log
C1_Witness ==
  /\ probe.calledReminder
  /\ probe.lastLog # NoDate
  /\ Overnight
  /\ probe.reminder = sleepInstant

\* C2: an instant returned by getUpcomingReminder is later than now, also
\* when lastLog + interval is not later than now (a stale candidate).
C2_ReminderAfterNow ==
  (probe.calledReminder /\ probe.reminder # NoDate) => probe.reminder > probe.now

\* a stale candidate from a log of an earlier day, replaced by now + interval
C2_Witness ==
  /\ probe.calledReminder
  /\ probe.lastLog # NoDate
  /\ probe.lastLog + DayLen <= probe.now
  /\ probe.lastLog + IntervalLen <= probe.now
  /\ probe.reminder = probe.now + IntervalLen

\* C4: with wakeTime < sleepTime, withinHydrationWindow(t) is true exactly
\* when wake <= t <= sleep on t's calendar date, both ends included.
C4_SameDayWindowExact ==
  (probe.calledWithin /\ ~Overnight) =>
    (probe.within <=>
       (WakeOffset <= TimeOfDay(probe.now) /\ TimeOfDay(probe.now) <= SleepOffset))

\* the instant equal to sleep on its date is inside
C4_Witness ==
  /\ probe.calledWithin
  /\ ~Overnight
  /\ TimeOfDay(probe.now) = SleepOffset
  /\ probe.within

\* C5: with sleepTime <= wakeTime the window runs from wake on a day D to
\* sleep on D+1: an instant is inside exactly when its time of day is at or
\* after wake, or at or before sleep (the part after midnight).
C5_OvernightWindowSpansMidnight ==
  (probe.calledWithin /\ Overnight) =>
    (probe.within <=>
       (TimeOfDay(probe.now) >= WakeOffset \/ TimeOfDay(probe.now) <= SleepOffset))

\* the base of the claim: lastLog if it lies in the window of now's date,
\* max(now, wakeInstant) otherwise
C6_Base ==
  IF /\ probe.lastLog # NoDate
     /\ wakeInstant <= probe.lastLog
     /\ probe.lastLog <= sleepInstant
  THEN probe.lastLog
  ELSE IF probe.now >= wakeInstant THEN probe.now ELSE wakeInstant

\* C6: when base + interval is later than now and not later than
\* sleepInstant, getUpcomingReminder returns base + interval, for same-day
\* and overnight windows alike.
C6_ReturnsBasePlusInterval ==
  ( /\ probe.calledReminder
    /\ C6_Base + IntervalLen > probe.now
    /\ C6_Base + IntervalLen <= sleepInstant )
  => probe.reminder = C6_Base + IntervalLen

\* lastLog exists and lies in the hydration window of now's calendar date
C15_LogInCurrentWindow ==
  /\ probe.lastLog # NoDate
  /\ wakeInstant <= probe.lastLog
  /\ probe.lastLog <= sleepInstant

\* C15: the base getUpcomingReminder computes from is lastLog exactly when
\* lastLog lies in the window of now's calendar date, and max(now,
\* wakeInstant) in every other case, where the result is the one the same
\* call gives with no log.
C15_BaseFromCurrentWindow ==
  probe.calledReminder =>
    /\ ReminderBase(probe.now, probe.settings, probe.lastLog) =
         (IF C15_LogInCurrentWindow THEN probe.lastLog
          ELSE IF probe.now >= wakeInstant THEN probe.now ELSE wakeInstant)
    /\ ~C15_LogInCurrentWindow =>
         probe.reminder = getUpcomingReminder(probe.now, probe.settings, NoDate)

\* --------------------------------------------- claims on log normalisation
\* the ids of the raw entries whose coerced amount is positive
C10_PositiveIds ==
  { i \in 1 .. Len(norm.raw) :
      norm.raw[i].amountMl # NotNumeric /\ norm.raw[i].amountMl > 0 }

\* C10 as stated: the result holds no entry with a non-positive amount and
\* each entry's createdAt is strictly later than the next entry's.
C10_StrictlyDescending ==
  norm.called =>
    /\ \A i \in 1 .. Len(norm.out) : norm.out[i].amountMl > 0
    /\ \A i \in 1 .. Len(norm.out) - 1 :
         norm.out[i].createdAt > norm.out[i + 1].createdAt

\* C10 amended: the result holds exactly the raw entries whose coerced
\* amount is positive, each once, ordered by createdAt descending with
\* equal createdAt allowed: entries of equal createdAt are all kept, in
\* their input order.
C10_DescendingKeepsTies ==
  norm.called =>
    /\ \A i \in 1 .. Len(norm.out) : norm.out[i].amountMl > 0
    /\ { norm.out[i].id : i \in 1 .. Len(norm.out) } = C10_PositiveIds
    /\ Len(norm.out) = Cardinality(C10_PositiveIds)
    /\ \A i \in 1 .. Len(norm.out) - 1 :
         \/ norm.out[i].createdAt > norm.out[i + 1].createdAt
         \/ /\ norm.out[i].createdAt = norm.out[i + 1].createdAt
            /\ norm.out[i].id < norm.out[i + 1].id

\* two entries of equal createdAt are both kept while another is dropped
C10_Witness ==
  /\ norm.called
  /\ Len(norm.out) < Len(norm.raw)
  /\ \E i \in 1 .. Len(norm.out) - 1 :
       /\ norm.out[i].createdAt = norm.out[i + 1].createdAt
       /\ norm.raw[norm.out[i].id].createdAt # NoDate
       /\ norm.raw[norm.out[i + 1].id].createdAt # NoDate

\* ------------------------------------------------ claims on the dashboard
Delivered(r) == [ kind |-> "reminder", at |-> r ] \in notifications

\* C3: with notifications enabled and permitted and no user action, every
\* reminder instant the scheduler yields gets its notification at that
\* instant: once the instant has passed, the notification has been emitted.
C3_ReminderDelivered ==
  \A r \in yielded : clock > r => Delivered(r)

\* C7: at most one reminder timer is pending.
C7_AtMostOneTimer == Cardinality(timers) <= 1

\* a reminder timer has fired and a later one is armed, alone
C7_Witness ==
  /\ Cardinality(timers) = 1
  /\ \E t \in timers, n \in notifications :
       n.kind = "reminder" /\ n.at < clock /\ t.due > clock

\* C8: a step that emits a notification is taken with the permission
\* granted (the permission the host holds when the notification is made).
C8_NotifyOnlyIfGranted ==
  [][notifications' # notifications => permission' = "granted"]_vars

\* a timer armed on load with notificationsEnabled stored as true has fired
\* without permission, and nothing was emitted
C8_Witness ==
  /\ settings.notificationsEnabled
  /\ permission # "granted"
  /\ userActions = 0
  /\ timers = {}
  /\ notificationTimeoutRef # NoTimer
  /\ notifications = {}

\* C9: notificationsEnabled turns true only in a step that leaves the
\* permission granted; a permission request that resolves leaves
\* notificationsEnabled true exactly when it resolved to granted; and a
\* request is started only by the toggle, with notifications disabled.
C9_EnableOnlyIfGranted ==
  [][ /\ (~settings.notificationsEnabled /\ settings'.notificationsEnabled)
          => (requested' = "granted" /\ permission' = "granted")
      /\ pending' < pending
          => (settings'.notificationsEnabled <=> requested' = "granted")
      /\ pending' > pending
          => /\ ~settings.notificationsEnabled
             /\ ~settings'.notificationsEnabled
             /\ userActions' = userActions + 1
             /\ UNCHANGED << clock, now, logs, timers, permission >> ]_vars

\* the prompt was dismissed and notifications stayed disabled
C9_Witness ==
  /\ pending = 0
  /\ requested = "default"
  /\ permission = "default"
  /\ ~settings.notificationsEnabled
  /\ notifications = {}

\* the logs made today: those whose createdAt is not before the local
\* midnight of the day the current time lies in
C11_MadeToday(log) == log.createdAt >= clock - (clock % DayLen)

\* C11: the dailyIntake and the todaysLogs handed to the presentation are
\* the sum, and the order-preserving sublist, of the logs made today; this
\* is read once the clock tick has carried now into the host clock's day,
\* so also after a tick past midnight with the logs untouched.
C11_TodayFiguresCurrent ==
  StartOfDay(now) = StartOfDay(clock) =>
    /\ dailyIntake = SumAmounts(SelectSeq(logs, C11_MadeToday))
    /\ todaysLogs = SelectSeq(logs, C11_MadeToday)

\* C12: a resetToday step leaves in the store exactly the logs made before
\* the local midnight of the current day, unchanged and in their order;
\* right after it today's total (as computed, and as shown) is 0; settings
\* stay as they are.
C12_ResetRemovesExactlyToday ==
  [][ resetToday =>
        LET midnight == clock - (clock % DayLen)
            earlier == { i \in 1 .. Len(logs) : logs[i].createdAt < midnight }
        IN  /\ Len(logs') = Cardinality(earlier)
            /\ \A k \in 1 .. Len(logs') :
                  \E i \in earlier :
                    /\ logs'[k] = logs[i]
                    /\ Cardinality({ j \in earlier : j <= i }) = k
            /\ \A k \in 1 .. Len(logs') : logs'[k].createdAt < midnight
            /\ dailyIntake' = 0
            /\ todaysLogs' = << >>
            /\ settings' = settings ]_vars

\* resetToday, the only user action so far, removed the stored log of today
\* and kept the stored log of the day before (the store cannot be written,
\* so storage still holds what was loaded)
C12_Witness ==
  /\ handled = "resetToday"
  /\ userActions = 1
  /\ ~storageWritable
  /\ storage # Absent
  /\ Len(storage.json.props.logs.items) = 2
  /\ storage.json.props.logs.items[2].createdAt >= StartOfDay(clock)
  /\ logs = << storage.json.props.logs.items[1] >>
  /\ dailyIntake = 0

\* C13: no two logs in the store share an id, also after two addLog calls
\* at the same clock instant (so that removeLog(id) removes one log only).
C13_LogIdsUnique ==
  \A i \in 1 .. Len(logs) : \A j \in 1 .. Len(logs) :
    i # j => logs[i].id # logs[j].id

\* ------------------------------------------------- claims on persistence
\* what reading log.note gives
C14_NoteOf(log) == IF "note" \in DOMAIN log THEN log.note ELSE UndefinedNote

C14_SameLog(a, b) ==
  /\ a.id = b.id
  /\ a.amountMl = b.amountMl
  /\ a.createdAt = b.createdAt
  /\ C14_NoteOf(a) = C14_NoteOf(b)

\* C14: a state with valid settings and positive-amount logs that was
\* written by persistState and then loaded (loadState, settings merged over
\* the defaults, logs normalised) comes back with the same settings and the
\* same logs in the same order, each with the same id, amountMl, createdAt
\* and note.
C14_RoundTrip ==
  (store.persisted /\ store.loaded /\ store.writable) =>
    /\ ~store.threw
    /\ store.settings = store.state.settings
    /\ Len(store.logs) = Len(store.state.logs)
    /\ \A i \in 1 .. Len(store.logs) : C14_SameLog(store.logs[i], store.state.logs[i])

\* changed settings and two logs of the same createdAt, the first with the
\* value undefined as its note and the second with a note, came back; the
\* first has lost its note property, which read undefined before
C14_Witness ==
  /\ store.persisted /\ store.loaded /\ store.writable
  /\ store.state.settings # DEFAULT_SETTINGS
  /\ Len(store.state.logs) = 2
  /\ store.state.logs[1].createdAt = store.state.logs[2].createdAt
  /\ "note" \in DOMAIN store.state.logs[1]
  /\ store.state.logs[1].note = UndefinedNote
  /\ C14_NoteOf(store.state.logs[2]) = "tea"
  /\ Len(store.logs) = 2
  /\ store.logs[1] # store.state.logs[1]

\* ---------------------------------------- claims on the dashboard (cont.)
\* notifications are disabled, or the scheduler's result is none
C16_NoReminderWanted ==
  ~settings.notificationsEnabled \/ reminderTimeOf(now, settings, logs) = NoDate

\* C16: whenever notifications are disabled or the scheduler's result is
\* none, no reminder timer is pending; and a reminder notification is
\* emitted only by a step that starts with notifications enabled, a
\* scheduler result and a timer pending.
C16_NoTimerWithoutReminder ==
  /\ [](C16_NoReminderWanted => timers = {})
  /\ [][ (\E n \in notifications' \ notifications : n.kind = "reminder")
           => (~C16_NoReminderWanted /\ timers # {}) ]_vars

\* the toggle, the only user action so far, disabled notifications while a
\* reminder later than the clock was scheduled, whose timer was pending:
\* the timer is gone and nothing was emitted
C16_Witness ==
  /\ handled = "handleNotificationToggle"
  /\ userActions = 1
  /\ requested = "none"
  /\ pending = 0
  /\ ~settings.notificationsEnabled
  /\ reminderTimeOf(now, settings, logs) # NoDate
  /\ reminderTimeOf(now, settings, logs) > clock
  /\ timers = {}
  /\ notifications = {}

\* C17: every log in the store has amountMl > 0 (entries read from storage
\* with a zero, negative or non-numeric amount are not in it), and a submit
\* with a volume that is not positive or not a number leaves the logs as
\* they are.
C17_AmountsPositive ==
  /\ [](\A i \in 1 .. Len(logs) :
          logs[i].amountMl # NotNumeric /\ logs[i].amountMl > 0)
  /\ [][ (SubmitForm /\ (volumeInput = NotNumeric \/ volumeInput <= 0))
           => logs' = logs ]_vars

\* the stored entry held three invalid logs around a valid one and a cup
\* size that is not a number (storage cannot be written and still holds
\* it); the form was submitted with that volume, as the only user action:
\* the store holds the valid log alone
C17_Witness ==
  /\ handled = "onSubmit"
  /\ userActions = 1
  /\ volumeInput = NotNumeric
  /\ ~storageWritable
  /\ storage # Absent
  /\ Len(storage.json.props.logs.items) = 4
  /\ logs = << storage.json.props.logs.items[2] >>

\* C18: the logs in the store are ordered newest first by createdAt, and
\* the lastLog handed to the scheduler is the createdAt of the most recent
\* log in the store (none when the store is empty).
C18_NewestFirst ==
  /\ \A i \in 1 .. Len(logs) : \A j \in 1 .. Len(logs) :
       i < j => logs[i].createdAt >= logs[j].createdAt
  /\ \A i \in 1 .. Len(logs) : logs[i].createdAt <= lastLogOf(logs)
  /\ (lastLogOf(logs) = NoDate) = (Len(logs) = 0)

\* two logs were stored oldest first (storage cannot be written and still
\* holds them); removeLog, the only user action so far, removed the most
\* recent one: the older log is the first of the store
C18_Witness ==
  /\ handled = "removeLog"
  /\ userActions = 1
  /\ ~storageWritable
  /\ storage # Absent
  /\ Len(storage.json.props.logs.items) = 2
  /\ storage.json.props.logs.items[1].createdAt
       < storage.json.props.logs.items[2].createdAt
  /\ logs = << storage.json.props.logs.items[1] >>
  /\ lastLogOf(logs) = storage.json.props.logs.items[1].createdAt

\* C19: when writes to storage succeed, the stored value is the
\* serialization of the settings and logs the component holds, in every
\* state (the persist effect has run after mount and after every change of
\* either); and writing the same state once more leaves the value as it is.
C19_StorageMirrorsState ==
  storageWritable =>
    /\ storage = Text(Stringify([ settings |-> settings, logs |-> logs ]))
    /\ persistState([ settings |-> settings, logs |-> logs ], storage, TRUE) = storage

\* after a quick add and a submit with a note, storage holds both logs, the
\* quick-added one without the note property it carries in memory
C19_Witness ==
  /\ storageWritable
  /\ handled \in { "addLog", "onSubmit" }
  /\ userActions = 2
  /\ Len(logs) = 2
  /\ \E i \in 1 .. 2 :
       /\ "note" \in DOMAIN logs[i]
       /\ logs[i].note = UndefinedNote
       /\ "note" \notin DOMAIN storage.json.props.logs.items[i]
       /\ "note" \in DOMAIN storage.json.props.logs.items[3 - i]
       /\ storage.json.props.logs.items[3 - i].note = "tea"

\* C20: a load with no stored entry, with an entry that cannot be read, or
\* with a text that is not a well-formed {settings, logs} object (whether
\* JSON.parse accepts it or not) throws nothing and gives the default
\* settings and no logs.
C20_MalformedLoadsAsAbsent ==
  ( /\ store.loaded
    /\ ~store.persisted
    /\ store.item \in { Absent, Unreadable } \cup
                        { Text(json) : json \in MalformedJson } )
  => /\ ~store.threw
     /\ store.settings = DEFAULT_SETTINGS
     /\ store.logs = << >>

\* C21: when a pending permission request resolves, the continuation changes
\* only notificationsEnabled: every other settings field and the logs stay as
\* they are at that moment, so a change made while the prompt was open is kept
C21_ChangesSurviveRequest ==
  [][pending' < pending =>
       /\ \A key \in DOMAIN settings \ { "notificationsEnabled" } :
            settings'[key] = settings[key]
       /\ DOMAIN settings' = DOMAIN settings
       /\ logs' = logs]_vars

\* the toggle was the first user action and opened the prompt, a change of
\* the daily goal or the cup size was the second, made while the prompt was
\* open, then the request resolved as granted: the change is still there (the storage is
\* unwritable and still holds what the component was mounted with)
C21_Witness ==
  /\ handled = "handleNotificationToggle"
  /\ asked = 1 /\ userActions = 2 /\ pending = 0
  /\ requested = "granted"
  /\ settings.notificationsEnabled
  /\ ~storageWritable
  /\ \/ /\ settings.dailyGoalMl \in GoalChoices
        /\ InitialSettings(loadState(storage)).dailyGoalMl \notin GoalChoices
     \/ /\ settings.cupSizeMl \in CupChoices
        /\ InitialSettings(loadState(storage)).cupSizeMl \notin CupChoices
====
